---- MODULE Spec2Model ----
(***************************************************************************)
(* Model of app.py: the APScheduler interval job running                   *)
(* fetch_and_save_data (HTTP GET with a 429 backoff loop, then an insert   *)
(* into the PlayerCountEntry table) and the two read routes get_summary    *)
(* and get_historical_data.                                                *)
(*                                                                         *)
(* Time is counted in hours (datetime.utcnow()); backoff delays are in     *)
(* seconds and only recorded, they are far below one unit of the clock.    *)
(***************************************************************************)
EXTENDS Integers, Sequences, FiniteSets, TLC

VARIABLES
    store,            \* committed PlayerCountEntry rows, in id (insertion) order
    clock,            \* datetime.utcnow(), in hours
    instances,        \* running instances of job 'roblox_fetch_job'
    firing,           \* what the last timer firing did: "none", "started", "skipped"
    pc,               \* position of fetch_and_save_data: idle, get, sleep, commit, done
    attempt,          \* loop variable of `for attempt in range(max_retries)`
    delay,            \* argument of the time.sleep in progress (0 when not sleeping)
    session,          \* db.session: entries added and not yet committed
    responses,        \* what each requests.get of the invocation in flight met
    before,           \* the table as it was when the invocation in flight began
    sleeps,           \* time.sleep calls made by the invocation in flight
    result,           \* how the invocation ended: [kind, value]
    rpc,              \* position of the request handler: idle, summary_max, responded
    latest_entry,     \* local of get_summary: the row its first query returned
    current_players,  \* local of get_summary after its first query
    response          \* the JSON body the handler returned

vars == <<store, clock, instances, firing, pc, attempt, delay, session, responses,
          before, sleeps, result, rpc, latest_entry, current_players, response>>

jobVars == <<instances, firing, pc, attempt, delay, session, responses, before,
             sleeps, result>>
readVars == <<rpc, latest_entry, current_players, response>>

----------------------------------------------------------------------------
(* Bounds of the model *)

MaxStore == 2        \* rows the table may hold before upstream stops yielding records
MaxClock == 48       \* last clock value
ClockStep == 24      \* hours between two observations of the clock

PlayingValues == {-1, 0, 90}     \* values upstream may put in 'playing'

----------------------------------------------------------------------------
(* Program constants *)

max_retries == 3
initial_delay == 1
WindowHours == 24

\* a job allowed to overlap itself
max_instances_overlapping == 1 + 1

\* add_job is given no max_instances: APScheduler runs at most one instance
max_instances == 1

----------------------------------------------------------------------------
(* Upstream responses *)

\* the first record of 'data': 'playing' is an integer, JSON null, or absent
Games ==
    [kind : {"int"}, value : PlayingValues]
        \cup [kind : {"null", "absent"}, value : {0}]

\* response.json(): not JSON at all, no 'data' key, or 'data' a list of records
Bodies ==
    [json : {FALSE}, has_data : {FALSE}, data : {<<>>}]
        \cup [json : {TRUE}, has_data : {FALSE}, data : {<<>>}]
        \cup [json : {TRUE}, has_data : {TRUE}, data : {<<>>}]
        \cup [json : {TRUE}, has_data : {TRUE}, data : {<<g>> : g \in Games}]

EmptyBody == [json |-> TRUE, has_data |-> FALSE, data |-> <<>>]

StatusCodes == {200, 204, 429, 500}

\* what requests.get does: raises a RequestException, or returns a response
Outcomes ==
    [network_error : {TRUE}, status_code : {0}, body : {EmptyBody}]
        \cup [network_error : {FALSE}, status_code : {200}, body : Bodies]
        \cup [network_error : {FALSE}, status_code : StatusCodes \ {200}, body : {EmptyBody}]

\* a 200 whose body leads to db.session.add
YieldsRecord(o) ==
    /\ ~o.network_error
    /\ o.status_code = 200
    /\ o.body.json /\ o.body.has_data /\ Len(o.body.data) > 0

\* the table is capped at MaxStore rows: upstream then yields no further record
Possible(o) == YieldsRecord(o) => Len(store) < MaxStore

NoResult == [kind |-> "running", value |-> 0]
\* latest_entry is None
NoEntry == [exists |-> FALSE, timestamp |-> 0, player_count |-> 0]

NoResponse ==
    [kind |-> "none", current_players |-> 0, max_players_24h |-> 0,
     labels |-> <<>>, data |-> <<>>]

Init ==
    /\ store = <<>>
    /\ clock = 0
    /\ instances = 0
    /\ firing = "none"
    /\ pc = "idle"
    /\ attempt = 0
    /\ delay = 0
    /\ session = <<>>
    /\ responses = <<>>
    /\ before = <<>>
    /\ sleeps = <<>>
    /\ result = NoResult
    /\ rpc = "idle"
    /\ latest_entry = NoEntry
    /\ current_players = 0
    /\ response = NoResponse

----------------------------------------------------------------------------
(* Scheduler: BackgroundScheduler with one interval job *)

\* the interval trigger fires: the executor runs job_wrapper unless the job
\* already has max_instances running, and then the run is skipped
TimerFires ==
    /\ IF instances < max_instances
       THEN /\ instances' = instances + 1
            /\ firing' = "started"
            /\ pc' = "get"
            /\ attempt' = 0
            /\ delay' = 0
            /\ session' = <<>>
            /\ responses' = <<>>
            /\ before' = store
            /\ sleeps' = <<>>
            /\ result' = NoResult
       ELSE /\ firing' = "skipped"
            /\ UNCHANGED <<instances, pc, attempt, delay, session, responses, before,
                           sleeps, result>>
    /\ UNCHANGED <<store, clock>>
    /\ UNCHANGED readVars

\* an executor that releases the instance only when the job caught nothing
JobEnd_leaking ==
    /\ pc = "done"
    /\ pc' = "idle"
    /\ instances' = IF result.kind = "caught" THEN instances ELSE instances - 1
    /\ firing' = "none"
    /\ attempt' = 0
    /\ responses' = <<>>
    /\ before' = <<>>
    /\ sleeps' = <<>>
    /\ result' = NoResult
    /\ UNCHANGED <<delay, session>>
    /\ UNCHANGED <<store, clock>>
    /\ UNCHANGED readVars

\* job_wrapper returns: the app context is torn down, the instance is released
JobEnd ==
    /\ pc = "done"
    /\ pc' = "idle"
    /\ instances' = instances - 1
    /\ firing' = "none"
    /\ attempt' = 0
    /\ responses' = <<>>
    /\ before' = <<>>
    /\ sleeps' = <<>>
    /\ result' = NoResult
    /\ UNCHANGED <<delay, session>>
    /\ UNCHANGED <<store, clock>>
    /\ UNCHANGED readVars

----------------------------------------------------------------------------
(* fetch_and_save_data *)

\* a delay that does not grow with the attempt
Backoff_constant(a) == initial_delay + 0 * a

\* delay = initial_delay * (2 ** attempt)
Backoff(a) == initial_delay * (2 ^ a)

\* response.raise_for_status(): raises HTTPError for 4xx and 5xx only
RaisesForStatus(s) == 400 <= s /\ s < 600

\* data.get('data') and len(data['data']) > 0
HasRecords(b) == b.has_data /\ Len(b.data) > 0

\* the count left at its initial 0 whatever the record holds
Playing_always_default(g) == [null |-> FALSE, player_count |-> 0]

\* game_data.get('playing', 0): the default only replaces an absent key
Playing(g) ==
    IF g.kind = "absent"
    THEN [null |-> FALSE, player_count |-> 0]
    ELSE [null |-> g.kind = "null", player_count |-> g.value]

\* PlayerCountEntry(player_count=player_count)
NewEntry(p) == [null |-> p.null, player_count |-> p.player_count]

\* the function returns (return player_count, return None, or the end of the body)
Return(kind, value) ==
    /\ pc' = "done"
    /\ result' = [kind |-> kind, value |-> value]
    /\ delay' = 0
    /\ UNCHANGED attempt

\* a handler that goes on with the next attempt instead of giving up
Caught_retrying ==
    /\ IF attempt + 1 < max_retries
       THEN /\ attempt' = attempt + 1
            /\ pc' = "get"
            /\ delay' = 0
            /\ UNCHANGED result
       ELSE Return("caught", 0)
    /\ session' = <<>>

\* except RequestException / except Exception: print and fall off the function
Caught ==
    /\ Return("caught", 0)
    /\ session' = <<>>

\* a `while True` in place of the bounded for loop
NextIteration_unbounded ==
    /\ pc' = "get"
    /\ delay' = 0
    /\ UNCHANGED <<attempt, result>>

\* the end of one iteration of `for attempt in range(max_retries)`
NextIteration ==
    IF attempt + 1 < max_retries
    THEN /\ attempt' = attempt + 1
         /\ pc' = "get"
         /\ delay' = 0
         /\ UNCHANGED result
    ELSE Return("exhausted", 0)

\* the warning without its return: the loop goes on
SkipSave_no_return ==
    /\ NextIteration
    /\ UNCHANGED <<session, sleeps>>

\* print("WARNING: ..."); return None
SkipSave ==
    /\ Return("none", 0)
    /\ UNCHANGED <<session, sleeps>>

\* new_entry = PlayerCountEntry(...); db.session.add(new_entry)
AddEntry(g) ==
    /\ session' = <<NewEntry(Playing(g))>>
    /\ pc' = "commit"
    /\ UNCHANGED <<attempt, delay, result, sleeps>>

\* the 429 branch: delay = ...; time.sleep(delay), whatever the attempt
RateLimited ==
    /\ delay' = Backoff(attempt)
    /\ sleeps' = Append(sleeps, Backoff(attempt))
    /\ pc' = "sleep"
    /\ UNCHANGED <<attempt, result, session>>

\* the else branch: response.raise_for_status(), which may return
OtherStatus(s) ==
    IF RaisesForStatus(s)
    THEN Caught /\ UNCHANGED sleeps
    ELSE NextIteration /\ UNCHANGED <<session, sleeps>>

\* response = requests.get(...) and the branch on response.status_code
Respond(o) ==
    IF o.network_error
    THEN Caught /\ UNCHANGED sleeps
    ELSE IF o.status_code = 200
    THEN IF ~o.body.json
         THEN Caught /\ UNCHANGED sleeps
         ELSE IF HasRecords(o.body)
         THEN AddEntry(o.body.data[1])
         ELSE SkipSave
    ELSE IF o.status_code = 429
    THEN RateLimited
    ELSE OtherStatus(o.status_code)

HttpGet ==
    /\ pc = "get"
    /\ \E o \in Outcomes :
        /\ Possible(o)
        /\ Respond(o)
        /\ responses' = Append(responses, o)
    /\ UNCHANGED <<instances, firing, before>>
    /\ UNCHANGED <<store, clock>>
    /\ UNCHANGED readVars

\* time.sleep(delay) returns
WakeUp ==
    /\ pc = "sleep"
    /\ NextIteration
    /\ UNCHANGED <<instances, firing, session, responses, before, sleeps>>
    /\ UNCHANGED <<store, clock>>
    /\ UNCHANGED readVars

\* the row db.session.commit() inserts: timestamp takes its default, utcnow()
InsertedRow(e) == [timestamp |-> clock, player_count |-> e.player_count]

\* a commit that overwrites the newest row instead of inserting
Committed_overwriting(rows, e) ==
    IF rows = <<>>
    THEN <<InsertedRow(e)>>
    ELSE [rows EXCEPT ![Len(rows)] = InsertedRow(e)]

\* the table after the commit
Committed(rows, e) == Append(rows, InsertedRow(e))

\* db.session.commit() succeeds; return player_count
Commit ==
    /\ pc = "commit"
    /\ ~session[1].null
    /\ store' = Committed(store, session[1])
    /\ session' = <<>>
    /\ Return("saved", session[1].player_count)
    /\ UNCHANGED <<instances, firing, responses, before, sleeps>>
    /\ UNCHANGED clock
    /\ UNCHANGED readVars

\* a commit that raises after its row has become visible
CommitFails_after_insert ==
    /\ pc = "commit"
    /\ Caught
    /\ store' = Append(store, InsertedRow(session[1]))
    /\ UNCHANGED <<instances, firing, responses, before, sleeps>>
    /\ UNCHANGED clock
    /\ UNCHANGED readVars

\* db.session.commit() raises (NOT NULL violated, or the database is unavailable)
CommitFails ==
    /\ pc = "commit"
    /\ Caught
    /\ UNCHANGED <<instances, firing, responses, before, sleeps>>
    /\ UNCHANGED <<store, clock>>
    /\ UNCHANGED readVars

----------------------------------------------------------------------------
(* The clock *)

ClockAdvances ==
    /\ clock + ClockStep <= MaxClock
    /\ clock' = clock + ClockStep
    /\ UNCHANGED store
    /\ UNCHANGED jobVars
    /\ UNCHANGED readVars

\* the wall clock is set back (utcnow is not monotonic)
ClockSetBack ==
    /\ clock >= ClockStep
    /\ clock' = clock - ClockStep
    /\ UNCHANGED store
    /\ UNCHANGED jobVars
    /\ UNCHANGED readVars

----------------------------------------------------------------------------
(* Queries on the PlayerCountEntry table *)

\* ORDER BY timestamp ASC in place of DESC
LatestIds_ascending(rows) ==
    {i \in DOMAIN rows : \A j \in DOMAIN rows : rows[i].timestamp <= rows[j].timestamp}

\* rows that may come first under ORDER BY timestamp DESC: ties are in any order
LatestIds(rows) ==
    {i \in DOMAIN rows : \A j \in DOMAIN rows : rows[j].timestamp <= rows[i].timestamp}

\* a filter with > in place of >=
InWindow_strict(rows, since) == {i \in DOMAIN rows : rows[i].timestamp > since}

\* .filter(PlayerCountEntry.timestamp >= since)
InWindow(rows, since) == {i \in DOMAIN rows : rows[i].timestamp >= since}

\* func.min in place of func.max
SqlMax_min(rows, ids) ==
    IF ids = {}
    THEN [null |-> TRUE, value |-> 0]
    ELSE [null |-> FALSE,
          value |-> CHOOSE m \in {rows[i].player_count : i \in ids} :
                        \A i \in ids : m <= rows[i].player_count]

\* db.func.max(PlayerCountEntry.player_count) ... .scalar(): NULL over no row
SqlMax(rows, ids) ==
    IF ids = {}
    THEN [null |-> TRUE, value |-> 0]
    ELSE [null |-> FALSE,
          value |-> CHOOSE m \in {rows[i].player_count : i \in ids} :
                        \A i \in ids : rows[i].player_count <= m]

\* `... or 0`: None and 0 both give 0
OrZero(x) == IF x.null \/ x.value = 0 THEN 0 ELSE x.value

\* datetime.utcnow() - timedelta(hours=24)
time_24_hours_ago == clock - WindowHours

\* max_entry_24h of get_summary
max_entry_24h(rows, since) == OrZero(SqlMax(rows, InWindow(rows, since)))

\* the qualifying rows in id order, with no ORDER BY timestamp
AscendingOrders_by_id(rows, ids) ==
    {q \in [1..Cardinality(ids) -> ids] :
        \A a, b \in DOMAIN q : a < b => q[a] < q[b]}

\* results of .order_by(PlayerCountEntry.timestamp.asc()).all(): every order of
\* the qualifying rows that is ascending in timestamp (ties in any order)
AscendingOrders(rows, ids) ==
    {q \in [1..Cardinality(ids) -> ids] :
        /\ \A a, b \in DOMAIN q : a # b => q[a] # q[b]
        /\ \A a, b \in DOMAIN q : a < b => rows[q[a]].timestamp <= rows[q[b]].timestamp}

\* entry.timestamp.strftime('%H:%M'): hour of the day and minute
Label(ts) == [hh |-> ts % 24, mm |-> 0]

----------------------------------------------------------------------------
(* get_summary *)

\* current_players = latest_entry.player_count if latest_entry else 0
CurrentPlayers(e) == IF e.exists THEN e.player_count ELSE 0

\* a handler that waits for the invocation in flight (one thread, or a lock
\* held for the whole tick)
SummaryLatest_waiting ==
    /\ rpc = "idle"
    /\ pc \in {"idle", "done"}
    /\ IF store = <<>>
       THEN latest_entry' = NoEntry
       ELSE \E i \in LatestIds(store) :
                latest_entry' = [exists |-> TRUE,
                                 timestamp |-> store[i].timestamp,
                                 player_count |-> store[i].player_count]
    /\ current_players' = CurrentPlayers(latest_entry')
    /\ rpc' = "summary_max"
    /\ UNCHANGED response
    /\ UNCHANGED <<store, clock>>
    /\ UNCHANGED jobVars

\* latest_entry = ...order_by(timestamp.desc()).first(); current_players
SummaryLatest ==
    /\ rpc = "idle"
    /\ IF store = <<>>
       THEN latest_entry' = NoEntry
       ELSE \E i \in LatestIds(store) :
                latest_entry' = [exists |-> TRUE,
                                 timestamp |-> store[i].timestamp,
                                 player_count |-> store[i].player_count]
    /\ current_players' = CurrentPlayers(latest_entry')
    /\ rpc' = "summary_max"
    /\ UNCHANGED response
    /\ UNCHANGED <<store, clock>>
    /\ UNCHANGED jobVars

\* the second query and the jsonify
SummaryMax ==
    /\ rpc = "summary_max"
    /\ response' = [kind |-> "summary",
                    current_players |-> current_players,
                    max_players_24h |-> max_entry_24h(store, time_24_hours_ago),
                    labels |-> <<>>, data |-> <<>>]
    /\ rpc' = "responded"
    /\ UNCHANGED <<latest_entry, current_players>>
    /\ UNCHANGED <<store, clock>>
    /\ UNCHANGED jobVars

----------------------------------------------------------------------------
(* get_historical_data *)

\* a handler that also deletes the rows older than the window
Historical_pruning ==
    /\ rpc = "idle"
    /\ \E entries \in AscendingOrders(store, InWindow(store, time_24_hours_ago)) :
        response' = [kind |-> "historical",
                     current_players |-> 0, max_players_24h |-> 0,
                     labels |-> [k \in DOMAIN entries |-> Label(store[entries[k]].timestamp)],
                     data |-> [k \in DOMAIN entries |-> store[entries[k]].player_count]]
    /\ rpc' = "responded"
    /\ store' = SelectSeq(store, LAMBDA r : r.timestamp >= time_24_hours_ago)
    /\ UNCHANGED <<latest_entry, current_players>>
    /\ UNCHANGED clock
    /\ UNCHANGED jobVars

Historical ==
    /\ rpc = "idle"
    /\ \E entries \in AscendingOrders(store, InWindow(store, time_24_hours_ago)) :
        response' = [kind |-> "historical",
                     current_players |-> 0, max_players_24h |-> 0,
                     labels |-> [k \in DOMAIN entries |-> Label(store[entries[k]].timestamp)],
                     data |-> [k \in DOMAIN entries |-> store[entries[k]].player_count]]
    /\ rpc' = "responded"
    /\ UNCHANGED <<latest_entry, current_players>>
    /\ UNCHANGED <<store, clock>>
    /\ UNCHANGED jobVars

\* the response is sent and the request context is torn down
RequestDone ==
    /\ rpc = "responded"
    /\ rpc' = "idle"
    /\ response' = NoResponse
    /\ latest_entry' = NoEntry
    /\ current_players' = 0
    /\ UNCHANGED <<store, clock>>
    /\ UNCHANGED jobVars

----------------------------------------------------------------------------

Next ==
    \/ TimerFires
    \/ JobEnd
    \/ HttpGet
    \/ WakeUp
    \/ Commit
    \/ CommitFails
    \/ ClockAdvances
    \/ ClockSetBack
    \/ SummaryLatest
    \/ SummaryMax
    \/ Historical
    \/ RequestDone

Spec == Init /\ [][Next]_vars

----------------------------------------------------------------------------
(* What an invocation of fetch_and_save_data has met so far *)

\* the status codes received, 0 standing for a RequestException
Statuses ==
    [k \in DOMAIN responses |->
        IF responses[k].network_error THEN 0 ELSE responses[k].status_code]

\* a 200 whose body has no 'data' key or an empty 'data' list
NoRecords200(o) ==
    /\ ~o.network_error
    /\ o.status_code = 200
    /\ o.body.json
    /\ ~o.body.has_data \/ o.body.data = <<>>

\* a 200 whose first record has no 'playing' key
NoPlaying200(o) ==
    /\ ~o.network_error
    /\ o.status_code = 200
    /\ o.body.json /\ o.body.has_data
    /\ o.body.data # <<>>
    /\ o.body.data[1].kind = "absent"

\* an invocation begins in this step
Begins == pc \notin {"get", "sleep"} /\ pc' = "get"

----------------------------------------------------------------------------
(* C1: at most one invocation of the job is in flight at any time; a timer  *)
(* firing that finds one in flight is skipped (it changes nothing of the    *)
(* invocation in flight or of the table) and is never queued: an invocation *)
(* begins only in the step of a firing that found none in flight.           *)
C1_SingleFlight ==
    [][ /\ instances' <= 1
        /\ (firing' = "skipped" /\ firing # "skipped") =>
                /\ instances = 1
                /\ UNCHANGED <<instances, pc, attempt, delay, session, responses,
                               before, sleeps, result, store>>
        /\ Begins => (pc = "idle" /\ instances = 0 /\ firing' = "started")
        /\ (pc # "idle" /\ pc' = "idle") => pc = "done"
      ]_vars

\* a firing met the invocation in its backoff sleep and was skipped
C1_Witness == firing = "skipped" /\ instances = 1 /\ pc = "sleep"

(* C2: after three 429 answers in one tick the invocation has made exactly  *)
(* 3 requests, slept 1s then 2s and not after the third, and ends with no   *)
(* sample, nothing raised and nothing appended.                             *)
C2_NoSleepAfterThird429 ==
    Statuses = <<429, 429, 429>> =>
        /\ pc = "done"
        /\ sleeps = <<1, 2>>
        /\ result.kind = "exhausted"
        /\ store = before

(* C3: a status other than 200 and 429 (500, and also 204) ends the tick at *)
(* that attempt: no further request is made by the invocation, and the     *)
(* table is as it was.                                                      *)
C3_OtherStatusEndsTick ==
    \A k \in DOMAIN Statuses :
        Statuses[k] \notin {0, 200, 429} =>
            /\ k = Len(Statuses)
            /\ store = before

(* C4: a 200 whose first record has no 'playing' field yields no sample:    *)
(* the invocation does not return a count and appends nothing to the table. *)
C4_NoPlayingNoSample ==
    (responses # <<>> /\ NoPlaying200(responses[Len(responses)])) =>
        /\ result.kind # "saved"
        /\ store = before

(* C5: a 200 whose 'data' is empty or missing ends the invocation at that   *)
(* attempt with no sample: it is the last request, the function returned    *)
(* None, nothing is pending in the session and the table is as it was.      *)
C5_NoRecordsNoSample ==
    \A k \in DOMAIN responses :
        NoRecords200(responses[k]) =>
            /\ k = Len(responses)
            /\ pc = "done"
            /\ result = [kind |-> "none", value |-> 0]
            /\ session = <<>>
            /\ store = before

\* an empty 'data' list arrived at the third attempt, after a 204 and a 429
C5_Witness ==
    /\ Len(responses) = 3
    /\ Statuses[1] = 204 /\ Statuses[2] = 429
    /\ NoRecords200(responses[3])
    /\ responses[3].body.has_data
    /\ pc = "done"
    /\ store # <<>>

(* C6: every stored Sample has player_count >= 0, whatever 'playing' held.  *)
C6_NonNegativeCounts ==
    \A i \in DOMAIN store : store[i].player_count >= 0

(* C7: the table is append-only: a step leaves it unchanged or appends one  *)
(* whole row at its end (the pending entry with its timestamp), keeping     *)
(* every earlier row in place; a reader's answer is built from whole        *)
(* committed rows only, never from the entry pending in the session.        *)
C7_AppendOnly ==
    [][ /\ \/ store' = store
           \/ /\ pc = "commit" /\ Len(session) = 1
              /\ Len(store') = Len(store) + 1
              /\ SubSeq(store', 1, Len(store)) = store
              /\ store'[Len(store')] =
                    [timestamp |-> clock, player_count |-> session[1].player_count]
        /\ (rpc = "summary_max" /\ rpc' = "responded") =>
              \/ response'.max_players_24h = 0
              \/ \E i \in DOMAIN store :
                    response'.max_players_24h = store[i].player_count
        /\ (rpc = "idle" /\ rpc' = "responded") =>
              \A k \in DOMAIN response'.data : \E i \in DOMAIN store :
                    /\ response'.data[k] = store[i].player_count
                    /\ response'.labels[k] = Label(store[i].timestamp)
      ]_vars

\* a read answered from the one committed row while a second entry, with
\* another count, is pending in the session
C7_Witness ==
    /\ Len(store) = 1
    /\ pc = "commit" /\ Len(session) = 1
    /\ session[1].player_count # store[1].player_count
    /\ rpc = "responded" /\ response.kind = "historical"
    /\ response.data = <<store[1].player_count>>

(* C8: whatever the outcome of a tick, the scheduler goes on: a finished    *)
(* invocation can always be ended, once it has ended the job has no         *)
(* instance left running, and the next firing begins an invocation at the   *)
(* first attempt with nothing carried over.                                 *)
FreshStart ==
    /\ TimerFires
    /\ pc' = "get" /\ attempt' = 0
    /\ responses' = <<>> /\ sleeps' = <<>> /\ session' = <<>>

C8_NextTickRuns ==
    /\ pc = "done" => ENABLED JobEnd
    /\ pc = "idle" => (instances < max_instances /\ ENABLED FreshStart)

\* a tick that failed at its third attempt, after a tick that stored a row
C8_Witness ==
    /\ pc = "done"
    /\ result.kind = "caught"
    /\ Len(responses) = 3
    /\ store # <<>>

(* C9: get_summary's first query takes the count of a row with the maximum  *)
(* timestamp of the table (0 when the table is empty), the answer carries   *)
(* that count as current_players, and on an empty table the answer is       *)
(* current_players = 0 and max_players_24h = 0.                             *)
C9_CurrentIsLatest ==
    [][ /\ (rpc = "idle" /\ rpc' = "summary_max") =>
              IF store = <<>>
              THEN current_players' = 0
              ELSE \E i \in DOMAIN store :
                      /\ \A j \in DOMAIN store : store[j].timestamp <= store[i].timestamp
                      /\ current_players' = store[i].player_count
        /\ (rpc = "summary_max" /\ rpc' = "responded") =>
              /\ response'.kind = "summary"
              /\ response'.current_players = current_players
              /\ store = <<>> =>
                    /\ response'.current_players = 0
                    /\ response'.max_players_24h = 0
      ]_vars

\* the row with the maximum timestamp is not the one inserted last, and the
\* answer carries its count
C9_Witness ==
    /\ rpc = "responded" /\ response.kind = "summary"
    /\ Len(store) = 2
    /\ store[1].timestamp > store[2].timestamp
    /\ store[1].player_count # store[2].player_count
    /\ response.current_players = store[1].player_count

(* C10: get_summary's max_players_24h is the maximum player_count over      *)
(* exactly the rows with timestamp >= now - 24h, and 0 when there is none;  *)
(* older rows never contribute. On the rows (t0,50), (t0+1h,70),            *)
(* (t0+25h,90) queried at t0+26h the latest count and the maximum are 90    *)
(* (the window then starts at t0+2h and holds the third row alone).         *)
ExampleRows ==
    <<[timestamp |-> 0, player_count |-> 50],
      [timestamp |-> 1, player_count |-> 70],
      [timestamp |-> 25, player_count |-> 90]>>

C10_MaxOverWindow ==
    [][ /\ (rpc = "summary_max" /\ rpc' = "responded") =>
              LET ids == {i \in DOMAIN store : store[i].timestamp >= clock - 24}
                  m == response'.max_players_24h
              IN  IF ids = {}
                  THEN m = 0
                  ELSE /\ \E i \in ids : m = store[i].player_count
                       /\ \A i \in ids : store[i].player_count <= m
        /\ LatestIds(ExampleRows) = {3}
        /\ InWindow(ExampleRows, 26 - WindowHours) = {3}
        /\ max_entry_24h(ExampleRows, 26 - WindowHours) = 90
      ]_vars

\* a row older than 24h holds a higher count than the maximum answered, and
\* a row exactly 24h old is counted
C10_Witness ==
    /\ rpc = "responded" /\ response.kind = "summary"
    /\ Len(store) = 2
    /\ clock = 48
    /\ store[1].timestamp = 0 /\ store[2].timestamp = 24
    /\ store[1].player_count = 90 /\ store[2].player_count = -1
    /\ response.max_players_24h = -1

(* C11: get_historical_data answers labels and data of equal length, one    *)
(* entry for each row with timestamp >= now - 24h and none for any other    *)
(* row, in ascending order of timestamp, data[k] and labels[k] being the    *)
(* count and the hour:minute of the k-th such row; rows of the same minute  *)
(* each keep their entry.                                                   *)
C11_HistoricalSeries ==
    [][ (rpc = "idle" /\ rpc' = "responded") =>
            LET ids == {i \in DOMAIN store : store[i].timestamp >= clock - 24}
                n == Cardinality(ids)
            IN  /\ response'.kind = "historical"
                /\ Len(response'.labels) = n
                /\ Len(response'.data) = n
                /\ \E q \in [1..n -> ids] :
                      /\ \A i \in ids : \E k \in 1..n : q[k] = i
                      /\ \A a, b \in 1..n :
                            a < b => store[q[a]].timestamp <= store[q[b]].timestamp
                      /\ \A k \in 1..n :
                            /\ response'.data[k] = store[q[k]].player_count
                            /\ response'.labels[k].hh = store[q[k]].timestamp % 24
      ]_vars

\* two rows in the window, the newer one inserted first: the series is in
\* timestamp order, not in insertion order
C11_Witness ==
    /\ rpc = "responded" /\ response.kind = "historical"
    /\ Len(store) = 2
    /\ store[1].timestamp > store[2].timestamp
    /\ store[1].player_count # store[2].player_count
    /\ store[2].timestamp >= clock - 24
    /\ response.data = <<store[2].player_count, store[1].player_count>>
    /\ response.labels[1] = response.labels[2]

(* C12: a network failure (timeout, connection error) at any attempt, also  *)
(* after earlier 429 answers, ends the tick at that attempt: no further     *)
(* request, no row appended, nothing pending, and the function returns      *)
(* with the exception caught.                                               *)
C12_NetworkFailureEndsTick ==
    \A k \in DOMAIN Statuses :
        Statuses[k] = 0 =>
            /\ k = Len(Statuses)
            /\ pc = "done"
            /\ result = [kind |-> "caught", value |-> 0]
            /\ session = <<>>
            /\ store = before

\* the third request failed on the network, after two 429 answers
C12_Witness ==
    /\ Statuses = <<429, 429, 0>>
    /\ sleeps = <<1, 2>>
    /\ pc = "done"

(* C13: a commit that raises is fatal to that write only: the table is as   *)
(* it was before the tick (every earlier row present and unchanged, nothing *)
(* of the failed entry visible), nothing stays pending, and a commit of a   *)
(* valid entry can always succeed, whatever failed before.                  *)
C13_FailedCommitIsLocal ==
    /\ (pc = "done" /\ result.kind = "caught"
            /\ responses # <<>> /\ YieldsRecord(responses[Len(responses)])) =>
          /\ store = before
          /\ session = <<>>
    /\ (pc = "commit" /\ ~session[1].null) => ENABLED Commit

\* the commit of a valid entry raised while the table held an earlier row
C13_Witness ==
    /\ pc = "done" /\ result.kind = "caught"
    /\ responses # <<>> /\ YieldsRecord(responses[Len(responses)])
    /\ responses[Len(responses)].body.data[1].kind = "int"
    /\ Len(store) = 1
    /\ store = before

----------------------------------------------------------------------------
(* Shapes of a tick used by the claims below *)

\* a 200 whose first record holds an integer 'playing'
ValidRecord200(o) ==
    /\ ~o.network_error
    /\ o.status_code = 200
    /\ o.body.json /\ o.body.has_data
    /\ o.body.data # <<>>
    /\ o.body.data[1].kind = "int"

\* a 200 with a non-empty 'data' list
NonEmptyData200(o) ==
    /\ ~o.network_error
    /\ o.status_code = 200
    /\ o.body.json /\ o.body.has_data
    /\ o.body.data # <<>>

\* the table is the one the tick found, with exactly one row more, of count c
AppendedOne(c) ==
    /\ Len(store) = Len(before) + 1
    /\ SubSeq(store, 1, Len(before)) = before
    /\ store[Len(store)].player_count = c

\* requests 1..k-1 were answered 429 and request k a 200 with a valid record
RetriedThenValid(k) ==
    /\ k \in DOMAIN responses
    /\ \A j \in 1..(k - 1) : Statuses[j] = 429
    /\ ValidRecord200(responses[k])

(* C14: a tick appends at most one row, and appends one exactly when one of *)
(* its requests met a 200 with a non-empty 'data' list and the commit did   *)
(* not raise; the row's count is the 'playing' value of the first record    *)
(* of that response (0, the default of the read, when the record has none). *)
C14_OneRowPerSuccessfulFetch ==
    pc # "idle" =>
        /\ store = before \/ \E c \in PlayingValues \cup {0} : AppendedOne(c)
        /\ store # before <=> result.kind = "saved"
        /\ store # before =>
              LET o == responses[Len(responses)]
              IN  /\ NonEmptyData200(o)
                  /\ AppendedOne(IF o.body.data[1].kind = "absent"
                                 THEN 0 ELSE o.body.data[1].value)
        /\ (pc = "done" /\ result.kind # "caught"
                /\ \E k \in DOMAIN responses : NonEmptyData200(responses[k])) =>
              store # before

\* the third request, after a 204 and a 429, brought a record that was stored
\* behind an earlier row
C14_Witness ==
    /\ pc = "done" /\ result.kind = "saved"
    /\ Len(responses) = 3
    /\ Statuses = <<204, 429, 200>>
    /\ Len(before) = 1 /\ Len(store) = 2
    /\ store[2].player_count = 90 /\ store[1].player_count = -1

(* C15, as claimed: if requests 1..k-1 of a tick (k <= 3) are answered 429  *)
(* and request k a 200 with a valid record, then exactly k requests are     *)
(* made, request j < k is followed by a sleep of 2^(j-1) s, nothing is      *)
(* requested or slept after the success, and exactly one row with that      *)
(* record's count is appended.                                              *)
C15_RetryThenSuccess_AsClaimed ==
    \A k \in 1..3 :
        RetriedThenValid(k) =>
            /\ Len(responses) = k
            /\ sleeps = [j \in 1..(k - 1) |-> 2 ^ (j - 1)]
            /\ pc \in {"commit", "done"}
            /\ pc = "done" => AppendedOne(responses[k].body.data[1].value)

(* C15, amended: the same, the row being appended provided the commit does  *)
(* not raise; when it raises nothing is appended.                           *)
C15_RetryThenSuccess ==
    \A k \in 1..3 :
        RetriedThenValid(k) =>
            /\ Len(responses) = k
            /\ sleeps = [j \in 1..(k - 1) |-> 2 ^ (j - 1)]
            /\ pc \in {"commit", "done"}
            /\ (pc = "done" /\ result.kind # "caught") =>
                  /\ AppendedOne(responses[k].body.data[1].value)
                  /\ result = [kind |-> "saved", value |-> responses[k].body.data[1].value]
            /\ (pc = "done" /\ result.kind = "caught") => store = before

\* two 429 answers, sleeps of 1 s and 2 s, then a record that was stored
C15_Witness ==
    /\ RetriedThenValid(3)
    /\ sleeps = <<1, 2>>
    /\ pc = "done" /\ result.kind = "saved"
    /\ store = Append(before, [timestamp |-> clock, player_count |-> 90])

(* C16: every tick ends after at most 3 requests, whatever upstream does:   *)
(* an invocation in flight can always take a step, every step of it lowers  *)
(* a rank that is at most 9 and never negative, and no invocation holds     *)
(* more than 3 responses.                                                   *)
InFlight == pc \in {"get", "sleep", "commit"}

Rank ==
    CASE pc = "get" -> 3 * (3 - attempt)
      [] pc = "sleep" -> 3 * (3 - attempt) - 1
      [] pc = "commit" -> 1
      [] OTHER -> 0

C16_TickTerminates ==
    [][ /\ Len(responses') <= 3
        /\ Rank' \in 0..9
        /\ InFlight => ENABLED (HttpGet \/ WakeUp \/ Commit \/ CommitFails)
        /\ (InFlight /\ <<pc, attempt, responses>>' # <<pc, attempt, responses>>) =>
              Rank' < Rank
        /\ (InFlight /\ Len(responses') > Len(responses)) => pc = "get"
      ]_vars

\* a tick that used its three requests: 429, 204, 429, and then gave up
C16_Witness ==
    /\ Statuses = <<429, 204, 429>>
    /\ pc = "done" /\ result.kind = "exhausted"

(* C17: get_summary and get_historical_data only read: a step of either,    *)
(* at any point of a tick, leaves the table, the clock, the scheduler's     *)
(* instance count and every variable of the invocation in flight unchanged. *)
C17_ReadsArePure ==
    [][ (rpc' # rpc \/ response' # response \/ current_players' # current_players) =>
            /\ store' = store
            /\ clock' = clock
            /\ instances' = instances /\ firing' = firing
            /\ pc' = pc /\ attempt' = attempt /\ delay' = delay
            /\ session' = session /\ responses' = responses
            /\ sleeps' = sleeps /\ result' = result
      ]_vars

\* a summary answered between the add and the commit of a second attempt,
\* over a table holding a row older than the window
C17_Witness ==
    /\ rpc = "responded" /\ response.kind = "summary"
    /\ pc = "commit" /\ attempt = 1 /\ Len(session) = 1
    /\ Len(store) = 1
    /\ store[1].timestamp < clock - 24
    /\ response.current_players = store[1].player_count
    /\ response.max_players_24h = 0

(* C18: while an invocation is in flight (at a request, in a backoff sleep  *)
(* or before its commit) the handlers are not held up: a request can start  *)
(* either query, a started summary can finish, an answer can be sent, and   *)
(* the series answered has one entry per committed row of the window.       *)
C18_ReadsNotBlocked ==
    InFlight =>
        /\ rpc = "idle" =>
              /\ ENABLED SummaryLatest
              /\ ENABLED (Historical /\
                    Len(response'.data) =
                        Cardinality({i \in DOMAIN store :
                                        store[i].timestamp >= clock - 24}))
        /\ rpc = "summary_max" =>
              ENABLED (SummaryMax /\ response'.current_players = current_players)
        /\ rpc = "responded" => ENABLED RequestDone

\* a series of one entry answered while the invocation sleeps 4 s after its
\* third 429
C18_Witness ==
    /\ pc = "sleep" /\ delay = 4
    /\ rpc = "responded" /\ response.kind = "historical"
    /\ Len(response.data) = 1
    /\ Len(store) = 1

(* C19, as claimed: when the row of maximum timestamp of the table lies in  *)
(* the 24-hour window at the instant get_summary takes `now`, the answer    *)
(* has max_players_24h >= current_players, also when a tick commits a row   *)
(* between the two queries. Stated for tables of non-negative counts only,  *)
(* so that no stored negative count is what refutes it.                     *)
C19_MaxCoversCurrent_AsClaimed ==
    [][ (rpc = "summary_max" /\ rpc' = "responded"
            /\ store # <<>>
            /\ \A i \in DOMAIN store : store[i].player_count >= 0
            /\ \A m \in DOMAIN store :
                  (\A j \in DOMAIN store : store[j].timestamp <= store[m].timestamp)
                      => store[m].timestamp >= clock - 24) =>
            response'.max_players_24h >= response'.current_players
      ]_vars

(* C19, amended: when the row get_summary read as the latest (the row of    *)
(* maximum timestamp at its first query) lies in the 24-hour window at the  *)
(* instant `now` is taken, the answer has max_players_24h >=                *)
(* current_players, also when a tick commits a row between the two queries. *)
C19_MaxCoversCurrent ==
    [][ (rpc = "summary_max" /\ rpc' = "responded"
            /\ latest_entry.exists
            /\ latest_entry.timestamp >= clock - 24) =>
            /\ response'.current_players = latest_entry.player_count
            /\ response'.max_players_24h >= response'.current_players
      ]_vars

\* the answer's current_players is the count of the older row and its
\* maximum the count of the newer one, both in the window: the newer row
\* was committed between the two queries
C19_Witness ==
    /\ rpc = "responded" /\ response.kind = "summary"
    /\ Len(store) = 2
    /\ store[1].timestamp < store[2].timestamp
    /\ store[1].timestamp >= clock - 24
    /\ store[1].player_count = -1 /\ store[2].player_count = 90
    /\ latest_entry.exists /\ latest_entry.timestamp = store[1].timestamp
    /\ response.current_players = -1
    /\ response.max_players_24h = 90

====
